---- MODULE Spec2Model ----
(***************************************************************************)
(* A model of package treeprint (src/treeprint.go): the Node heap, the     *)
(* tree-building and query methods, and the renderer.                      *)
(*                                                                         *)
(* Nodes are heap objects; a *Node is the index of its object (Nil = 0).   *)
(* A string is the sequence of its characters, each character a one-       *)
(* character TLA+ string.  The box-drawing runes are written with ASCII    *)
(* stand-ins, one per rune:  "|" = U+2502,  "+" = U+251C,  "-" = U+2500,   *)
(* "L" = U+2514.                                                           *)
(***************************************************************************)
EXTENDS Integers, Sequences, FiniteSets, TLC

VARIABLES
    Root,    \* Root[n]  : the Root field of node n (a *Node, Nil when unset)
    Meta,    \* Meta[n]  : the Meta field (an any)
    Value,   \* Value[n] : the Value field (an any)
    Nodes,   \* Nodes[n] : the Nodes field, the sequence of child pointers
    call,    \* the most recent method call: its name, receiver and arguments
    ret      \* what that call returned or wrote

vars == <<Root, Meta, Value, Nodes, call, ret>>

(***************************************************************************)
(* Bounds of the model.                                                    *)
(***************************************************************************)
\* Nodes on the heap under Spec (every public operation).
MaxNodes == 3
\* Nodes on the heap under SpecFind (add operations, search).
MaxFind == 4
\* Nodes on the heap under SpecBuild (add operations, render, visit).
MaxBuild == 5
\* Nodes on the heap under SpecDeep (add operations with one value, render).
MaxDeep == 8

(***************************************************************************)
(* Values.                                                                 *)
(***************************************************************************)
Nil == 0

\* An any: either nil or a string.
AnyNil == [isNil |-> TRUE, str |-> <<>>]
Str(s) == [isNil |-> FALSE, str |-> s]

LF == "\n"

\* The value New() gives the root.
Dot == Str(<<".">>)
\* A one-line value and a value with an embedded line break.
ValA == Str(<<"a">>)
ValML == Str(<<"b", LF, "c">>)

\* The arguments the callers of the model pass.
Values == {ValA, ValML}
Metas == {ValA}
Targets == {AnyNil, ValA, ValML}

IndentSize == 3
EdgeTypeLink == <<"|">>
EdgeTypeMid == <<"+", "-">>
EdgeTypeEnd == <<"L", "-">>

(***************************************************************************)
(* Strings.                                                                *)
(***************************************************************************)
\* strings.Repeat(c, k)
Repeat(c, k) == [i \in 1..k |-> c]

\* fmt's %v of an any
Sprint(v) == IF v.isNil THEN <<"<", "n", "i", "l", ">">> ELSE v.str

RECURSIVE SplitFrom(_, _, _)
SplitFrom(s, i, cur) ==
    IF i > Len(s) THEN <<cur>>
    ELSE IF s[i] = LF THEN <<cur>> \o SplitFrom(s, i + 1, <<>>)
    ELSE SplitFrom(s, i + 1, Append(cur, s[i]))

\* strings.Split(s, "\n")
Split(s) == SplitFrom(s, 1, <<>>)

RECURSIVE Join(_, _)
\* strings.Join(parts, sep)
Join(parts, sep) ==
    IF Len(parts) = 0 THEN <<>>
    ELSE IF Len(parts) = 1 THEN parts[1]
    ELSE parts[1] \o sep \o Join(Tail(parts), sep)

(***************************************************************************)
(* The heap.                                                               *)
(***************************************************************************)
Allocated == DOMAIN Nodes

NoRet == [node |-> Nil, w |-> <<>>, panic |-> FALSE, visited |-> <<>>]
RetNode(n) == [NoRet EXCEPT !.node = n]

Call(op, n, meta, a) == [op |-> op, n |-> n, meta |-> meta, a |-> a]

\* New(): one node, no parent, no meta, value ".", no children.
New ==
    /\ Root = <<Nil>>
    /\ Meta = <<AnyNil>>
    /\ Value = <<Dot>>
    /\ Nodes = << <<>> >>
    /\ call = Call("New", Nil, AnyNil, AnyNil)
    /\ ret = RetNode(1)

\* AppendChild with the new node put in front of the receiver's children.
AppendChildFront(n, meta, a) ==
    LET new == Len(Nodes) + 1 IN
    /\ Root' = Append(Root, n)
    /\ Meta' = Append(Meta, meta)
    /\ Value' = Append(Value, a)
    /\ Nodes' = Append([Nodes EXCEPT ![n] = <<new>> \o @], <<>>)

\* &Node{Root: n, Meta: meta, Value: a}, appended to n.Nodes
AppendChild(n, meta, a) ==
    LET new == Len(Nodes) + 1 IN
    /\ Root' = Append(Root, n)
    /\ Meta' = Append(Meta, meta)
    /\ Value' = Append(Value, a)
    /\ Nodes' = Append([Nodes EXCEPT ![n] = Append(@, new)], <<>>)

AddNode(n, a) ==
    /\ AppendChild(n, AnyNil, a)
    /\ call' = Call("AddNode", n, AnyNil, a)
    /\ ret' = RetNode(n)

AddMetaNode(n, meta, a) ==
    /\ AppendChild(n, meta, a)
    /\ call' = Call("AddMetaNode", n, meta, a)
    /\ ret' = RetNode(n)

AddBranch(n, a) ==
    /\ AppendChild(n, AnyNil, a)
    /\ call' = Call("AddBranch", n, AnyNil, a)
    /\ ret' = RetNode(Len(Nodes) + 1)

AddMetaBranch(n, meta, a) ==
    /\ AppendChild(n, meta, a)
    /\ call' = Call("AddMetaBranch", n, meta, a)
    /\ ret' = RetNode(Len(Nodes) + 1)

Branch(n) ==
    /\ Root' = [Root EXCEPT ![n] = Nil]
    /\ call' = Call("Branch", n, AnyNil, AnyNil)
    /\ ret' = RetNode(n)
    /\ UNCHANGED <<Meta, Value, Nodes>>

SetValue(n, value) ==
    /\ Value' = [Value EXCEPT ![n] = value]
    /\ call' = Call("SetValue", n, AnyNil, value)
    /\ ret' = NoRet
    /\ UNCHANGED <<Root, Meta, Nodes>>

SetMetaValue(n, meta) ==
    /\ Meta' = [Meta EXCEPT ![n] = meta]
    /\ call' = Call("SetMetaValue", n, meta, AnyNil)
    /\ ret' = NoRet
    /\ UNCHANGED <<Root, Value, Nodes>>

\* n.FindLastNode() as a value
FindLastNodeOf(n) ==
    LET ns == Nodes[n] IN
    IF Len(ns) = 0 THEN Nil ELSE ns[Len(ns)]

FindLastNode(n) ==
    /\ call' = Call("FindLastNode", n, AnyNil, AnyNil)
    /\ ret' = RetNode(FindLastNodeOf(n))
    /\ UNCHANGED <<Root, Meta, Value, Nodes>>

(***************************************************************************)
(* Search and traversal.                                                   *)
(***************************************************************************)
RECURSIVE FindByMetaFrom(_, _, _)
\* The loop of n.FindByMeta(meta) from the i-th child on; Nil is Go's nil.
FindByMetaFrom(n, meta, i) ==
    IF i > Len(Nodes[n]) THEN Nil
    ELSE LET node == Nodes[n][i] IN
         IF Meta[node] = meta THEN node
         ELSE LET v == FindByMetaFrom(node, meta, 1) IN
              IF v # Nil THEN v ELSE FindByMetaFrom(n, meta, i + 1)

FindByMetaOf(n, meta) == FindByMetaFrom(n, meta, 1)

RECURSIVE FindByValueFrom(_, _, _)
\* The loop of n.FindByValue(value): the recursive call is node.FindByMeta.
FindByValueFrom(n, value, i) ==
    IF i > Len(Nodes[n]) THEN Nil
    ELSE LET node == Nodes[n][i] IN
         IF Value[node] = value THEN node
         ELSE LET v == FindByMetaOf(node, value) IN
              IF v # Nil THEN v ELSE FindByValueFrom(n, value, i + 1)

FindByValueOf(n, value) == FindByValueFrom(n, value, 1)

FindByMeta(n, meta) ==
    /\ call' = Call("FindByMeta", n, meta, AnyNil)
    /\ ret' = RetNode(FindByMetaOf(n, meta))
    /\ UNCHANGED <<Root, Meta, Value, Nodes>>

FindByValue(n, value) ==
    /\ call' = Call("FindByValue", n, AnyNil, value)
    /\ ret' = RetNode(FindByValueOf(n, value))
    /\ UNCHANGED <<Root, Meta, Value, Nodes>>

RECURSIVE VisitAllFrom(_, _)
\* The loop of n.VisitAll(fn) from the i-th child on: the nodes fn is called
\* with, in call order.
VisitAllFrom(n, i) ==
    IF i > Len(Nodes[n]) THEN <<>>
    ELSE LET node == Nodes[n][i] IN
         <<node>>
         \o (IF Len(Nodes[node]) > 0 THEN VisitAllFrom(node, 1) ELSE <<>>)
         \o VisitAllFrom(n, i + 1)

RECURSIVE VisitLevels(_)
VisitLevels(q) ==
    IF Len(q) = 0 THEN <<>>
    ELSE LET RECURSIVE below(_)
             below(r) == IF Len(r) = 0 THEN <<>> ELSE Nodes[Head(r)] \o below(Tail(r))
         IN q \o VisitLevels(below(q))

\* VisitAll walking level by level, as its doc comment has it.
VisitAllLevels(n) == VisitLevels(Nodes[n])

VisitAllOf(n) == VisitAllFrom(n, 1)

VisitAll(n) ==
    /\ call' = Call("VisitAll", n, AnyNil, AnyNil)
    /\ ret' = [NoRet EXCEPT !.visited = VisitAllOf(n)]
    /\ UNCHANGED <<Root, Meta, Value, Nodes>>

(***************************************************************************)
(* The renderer.                                                           *)
(*                                                                         *)
(* levelsEnded is a Go slice: a header (backing array, len, cap) passed by *)
(* value, over backing arrays that append may write in place.  The render  *)
(* state rs carries the sink w (one record per line group written, with    *)
(* the node it is for), the backing arrays, and whether a panic unwound.   *)
(***************************************************************************)
NilSlice == [arr |-> 0, len |-> 0, cap |-> 0]

\* The elements of slice s.
Elems(arrays, s) == IF s.arr = 0 THEN <<>> ELSE SubSeq(arrays[s.arr], 1, s.len)

\* append(s, v): in place when cap allows, else into a new array of grown cap.
GoAppend(arrays, s, v) ==
    IF s.len < s.cap
    THEN [arrays |-> [arrays EXCEPT ![s.arr][s.len + 1] = v],
          s |-> [s EXCEPT !.len = @ + 1]]
    ELSE LET newcap == IF s.cap = 0 THEN 1 ELSE 2 * s.cap
             old == Elems(arrays, s)
             new == [i \in 1..newcap |->
                        IF i <= s.len THEN old[i]
                        ELSE IF i = s.len + 1 THEN v ELSE 0]
         IN [arrays |-> Append(arrays, new),
             s |-> [arr |-> Len(arrays) + 1, len |-> s.len + 1, cap |-> newcap]]

\* isEnded over the elements of levelsEnded
isEnded(levelsEnded, level) ==
    \E i \in 1..Len(levelsEnded) : levelsEnded[i] = level

\* isLast taking a node without children for a last sibling, the test
\* Writer makes for its start node.
isLastByLeaf(n) == Len(Nodes[n]) = 0

\* isLast(n); n.Root is not nil where the code calls it
isLast(n) == n = FindLastNodeOf(Root[n])

\* The two padding segments.
BlankSeg == Repeat(" ", IndentSize + 1)
LinkSeg == EdgeTypeLink \o Repeat(" ", IndentSize)

RECURSIVE paddingLoop(_, _, _)
\* The loop of padding: links[level] is element level + 1 of the sequence;
\* an index outside the array is Go's index-out-of-range panic.
paddingLoop(links, level, node) ==
    IF Root[node] = Nil THEN [panic |-> FALSE, links |-> links]
    ELSE IF level < 0 \/ level >= Len(links) THEN [panic |-> TRUE, links |-> links]
    ELSE paddingLoop(
            [links EXCEPT ![level + 1] = IF isLast(node) THEN BlankSeg ELSE LinkSeg],
            level - 1, Root[node])

padding(level, node) ==
    LET r == paddingLoop([i \in 1..(level + 1) |-> <<>>], level, node) IN
    [panic |-> r.panic, str |-> Join(r.links, <<>>)]

renderValue(level, node) ==
    LET lines == Split(Sprint(Value[node])) IN
    IF Len(lines) < 2 THEN [panic |-> FALSE, str |-> Sprint(Value[node])]
    ELSE LET pad == padding(level, node)
             padded == [i \in 1..Len(lines) |->
                           IF i = 1 THEN lines[i] ELSE pad.str \o lines[i]]
         IN [panic |-> pad.panic, str |-> Join(padded, <<LF>>)]

RECURSIVE prefixFrom(_, _, _)
\* The first loop of printValues, from level i on.
prefixFrom(levelsEnded, i, level) ==
    IF i >= level THEN <<>>
    ELSE (IF isEnded(levelsEnded, i) THEN BlankSeg ELSE LinkSeg)
         \o prefixFrom(levelsEnded, i + 1, level)

\* One write group of the sink: the node it is for, the level and the ended
\* levels it was written with, and the characters written.
Line(node, level, ended, text) ==
    [node |-> node, level |-> level, ended |-> ended, text |-> text]

printValues(rs, level, levelsEnded, edge, node) ==
    LET ended == Elems(rs.arrays, levelsEnded)
        prefix == prefixFrom(ended, 0, level)
        val == renderValue(level, node)
        meta == Meta[node]
        rest == IF ~meta.isNil
                THEN edge \o <<" ", "[">> \o Sprint(meta) \o <<"]", " ", " ">>
                     \o val.str \o <<LF>>
                ELSE edge \o <<" ">> \o val.str \o <<LF>>
    IN IF val.panic
       THEN [rs EXCEPT !.w = Append(@, Line(node, level, ended, prefix)),
                       !.panic = TRUE]
       ELSE [rs EXCEPT !.w = Append(@, Line(node, level, ended, prefix \o rest))]

RECURSIVE printNodesFrom(_, _, _, _, _)
\* The loop of printNodes from the i-th node on (i is 1-based here).
printNodesFrom(rs, level, levelsEnded, nodes, i) ==
    IF rs.panic \/ i > Len(nodes) THEN rs
    ELSE LET node == nodes[i]
             last == (i = Len(nodes))
             ap == IF last THEN GoAppend(rs.arrays, levelsEnded, level)
                   ELSE [arrays |-> rs.arrays, s |-> levelsEnded]
             edge == IF last THEN EdgeTypeEnd ELSE EdgeTypeMid
             rs1 == printValues([rs EXCEPT !.arrays = ap.arrays],
                                level, ap.s, edge, node)
             rs2 == IF ~rs1.panic /\ Len(Nodes[node]) > 0
                    THEN printNodesFrom(rs1, level + 1, ap.s, Nodes[node], 1)
                    ELSE rs1
         IN printNodesFrom(rs2, level, ap.s, nodes, i + 1)

RECURSIVE printNodesSharedFrom(_, _, _, _, _)
printNodesSharedFrom(rs, level, levelsEnded, nodes, i) ==
    IF rs.panic \/ i > Len(nodes) THEN [rs |-> rs, s |-> levelsEnded]
    ELSE LET node == nodes[i]
             last == (i = Len(nodes))
             ap == IF last THEN GoAppend(rs.arrays, levelsEnded, level)
                   ELSE [arrays |-> rs.arrays, s |-> levelsEnded]
             edge == IF last THEN EdgeTypeEnd ELSE EdgeTypeMid
             rs1 == printValues([rs EXCEPT !.arrays = ap.arrays],
                                level, ap.s, edge, node)
             sub == IF ~rs1.panic /\ Len(Nodes[node]) > 0
                    THEN printNodesSharedFrom(rs1, level + 1, ap.s, Nodes[node], 1)
                    ELSE [rs |-> rs1, s |-> ap.s]
         IN printNodesSharedFrom(sub.rs, level, sub.s, nodes, i + 1)

\* printNodes with levelsEnded shared by reference: what a callee appends
\* stays in the caller's list.
printNodesShared(rs, level, levelsEnded, nodes) ==
    printNodesSharedFrom(rs, level, levelsEnded, nodes, 1).rs

printNodes(rs, level, levelsEnded, nodes) ==
    printNodesFrom(rs, level, levelsEnded, nodes, 1)

\* n.Writer(w) on an empty sink: the final render state.
WriterOf(n) ==
    LET level == 0
        rs0 == [w |-> <<>>, arrays |-> <<>>, panic |-> FALSE]
        rootText == (IF ~Meta[n].isNil
                     THEN <<"[">> \o Sprint(Meta[n]) \o <<"]", " ", " ">>
                     ELSE <<>>)
                    \o Sprint(Value[n]) \o <<LF>>
        leaf == Len(Nodes[n]) = 0
        ap == IF Root[n] # Nil /\ leaf THEN GoAppend(rs0.arrays, NilSlice, level)
              ELSE [arrays |-> rs0.arrays, s |-> NilSlice]
        rs1 == IF Root[n] = Nil
               THEN [rs0 EXCEPT !.w = Append(@, Line(n, level, <<>>, rootText))]
               ELSE printValues([rs0 EXCEPT !.arrays = ap.arrays], 0, ap.s,
                                IF leaf THEN EdgeTypeEnd ELSE EdgeTypeMid, n)
    IN IF ~rs1.panic /\ Len(Nodes[n]) > 0
       THEN printNodes(rs1, level, ap.s, Nodes[n])
       ELSE rs1

\* Writer with renderValue storing the padded text back into node.Value.
WriterStoringValue(n) ==
    LET rs == WriterOf(n)
        padded(x) == {k \in 1..Len(rs.w) :
                         /\ rs.w[k].node = x
                         /\ ~(k = 1 /\ Root[n] = Nil)
                         /\ Len(Split(Sprint(Value[x]))) >= 2}
    IN
    /\ call' = Call("Writer", n, AnyNil, AnyNil)
    /\ ret' = [NoRet EXCEPT !.w = rs.w, !.panic = rs.panic]
    /\ Value' = [x \in DOMAIN Value |->
                    IF padded(x) # {} /\ ~rs.panic
                    THEN Str(renderValue(rs.w[CHOOSE k \in padded(x) : TRUE].level, x).str)
                    ELSE Value[x]]
    /\ UNCHANGED <<Root, Meta, Nodes>>

\* The tree after n.Writer(w): the renderer assigns to no field of any node.
Writer(n) ==
    LET rs == WriterOf(n) IN
    /\ call' = Call("Writer", n, AnyNil, AnyNil)
    /\ ret' = [NoRet EXCEPT !.w = rs.w, !.panic = rs.panic]
    /\ UNCHANGED <<Root, Meta, Value, Nodes>>

(***************************************************************************)
(* Specifications.                                                         *)
(***************************************************************************)
Init == New

\* The tree-building operations, FindLastNode and the renderer, on any node
\* the caller can hold.
Next ==
    \E n \in Allocated :
        \/ /\ Len(Nodes) < MaxNodes
           /\ \E a \in Values :
                \/ AddNode(n, a)
                \/ AddBranch(n, a)
                \/ \E meta \in Metas :
                     \/ AddMetaNode(n, meta, a)
                     \/ AddMetaBranch(n, meta, a)
        \/ Branch(n)
        \/ \E a \in Values : SetValue(n, a)
        \/ \E meta \in Metas \cup {AnyNil} : SetMetaValue(n, meta)
        \/ FindLastNode(n)
        \/ Writer(n)

Spec == Init /\ [][Next]_vars

\* Trees built by the add operations, searched.
NextFind ==
    \E n \in Allocated :
        \/ /\ Len(Nodes) < MaxFind
           /\ \E a \in Values :
                \/ AddNode(n, a)
                \/ AddBranch(n, a)
                \/ \E meta \in Metas :
                     \/ AddMetaNode(n, meta, a)
                     \/ AddMetaBranch(n, meta, a)
        \/ \E t \in Targets : FindByMeta(n, t)
        \/ \E t \in Targets : FindByValue(n, t)

SpecFind == Init /\ [][NextFind]_vars

\* Trees built by AddNode and AddBranch, rendered and visited.
NextBuild ==
    \E n \in Allocated :
        \/ /\ Len(Nodes) < MaxBuild
           /\ \E a \in Values :
                \/ AddNode(n, a)
                \/ AddBranch(n, a)
        \/ VisitAll(n)
        \/ Writer(n)

SpecBuild == Init /\ [][NextBuild]_vars

\* Deeper trees built by AddNode and AddBranch with one value, rendered from
\* the root.
NextDeep ==
    \E n \in Allocated :
        \/ /\ Len(Nodes) < MaxDeep
           /\ \/ AddNode(n, ValA)
              \/ AddBranch(n, ValA)
        \/ /\ Root[n] = Nil
           /\ Writer(n)

SpecDeep == Init /\ [][NextDeep]_vars

(***************************************************************************)
(* The tree as the properties speak of it: ownership read off the children *)
(* sequences, independent of the Root back-references.                     *)
(***************************************************************************)
Range(f) == {f[i] : i \in DOMAIN f}

Kids(S) == UNION {Range(Nodes[x]) : x \in S}

RECURSIVE Closure(_)
Closure(S) == LET T == S \cup Kids(S) IN IF T = S THEN S ELSE Closure(T)

\* The proper descendants of n.
Desc(n) == Closure(Kids({n}))

\* The node whose children sequence holds x (Nil for a node in none).
Owner(x) ==
    IF \E p \in Allocated : x \in Range(Nodes[p])
    THEN CHOOSE p \in Allocated : x \in Range(Nodes[p])
    ELSE Nil

\* x is the last element of its owner's children sequence.
IsLastChild(x) ==
    /\ Owner(x) # Nil
    /\ Nodes[Owner(x)][Len(Nodes[Owner(x)])] = x

RECURSIVE PathTo(_, _)
\* The nodes on the way from r down to its descendant x: the child of r
\* first (depth 0), x last.
PathTo(r, x) == IF x = r THEN <<>> ELSE Append(PathTo(r, Owner(x)), x)

\* Depth of x below the render start r: children of r are depth 0.
DepthBelow(r, x) == Len(PathTo(r, x)) - 1

\* The position of x in sequence q.
Pos(q, x) == CHOOSE i \in 1..Len(q) : q[i] = x

\* Width of one prefix or padding segment.
SegWidth == IndentSize + 1

\* Segment i (from 0) of a line of text.
Seg(text, i) == SubSeq(text, i * SegWidth + 1, (i + 1) * SegWidth)

\* The segment that belongs under a node: blank under a last sibling, a
\* vertical link otherwise.
SegFor(x) == IF IsLastChild(x) THEN BlankSeg ELSE LinkSeg

\* The lines of a write group (its final line break dropped).
TextLines(text) == Split(SubSeq(text, 1, Len(text) - 1))

\* The lines of node x's value.
ValueLines(x) == Split(Sprint(Value[x]))

\* The characters a render wrote, in order.
RECURSIVE Output(_)
Output(w) == IF Len(w) = 0 THEN <<>> ELSE w[1].text \o Output(Tail(w))

AddOps == {"AddNode", "AddMetaNode", "AddBranch", "AddMetaBranch"}

\* The last call rendered a parentless node and the write groups after the
\* first are those of its descendants.
RenderedRoot == call.op = "Writer" /\ Root[call.n] = Nil

(***************************************************************************)
(* C1.  Every rendered line that carries a connector carries exactly one   *)
(* of the mid/end connectors, and it is the end connector iff the line's   *)
(* node is the last element of its parent's children sequence; this        *)
(* includes the line Writer emits for a start node that has a parent.      *)
(***************************************************************************)
Connectors(text) == {i \in 1..Len(text) : text[i] \in {"+", "L"}}

C1_ConnectorIffLast ==
    call.op = "Writer" =>
        \A k \in 1..Len(ret.w) :
            LET c == Connectors(ret.w[k].text) IN
            c # {} =>
                /\ Cardinality(c) = 1
                /\ (\A i \in c : ret.w[k].text[i] = "L")
                        <=> IsLastChild(ret.w[k].node)

(***************************************************************************)
(* C2.  Rendering never fails: Writer on any node of any tree the public   *)
(* operations build completes without a runtime panic, also with values    *)
(* that hold line breaks (no index padding writes is out of range).        *)
(***************************************************************************)
C2_RenderNeverPanics == call.op = "Writer" => ~ret.panic

(***************************************************************************)
(* C3.  FindByValue(t) on n returns the first proper descendant of n in    *)
(* pre-order whose value equals t, and nil iff no descendant at any depth  *)
(* has that value; FindByMeta(t) does the same for the meta field.         *)
(***************************************************************************)
\* x comes before y in the pre-order walk below n: x is an ancestor of y,
\* or where their paths part x's side is the earlier child.
PreOrderBefore(n, x, y) ==
    LET px == PathTo(n, x)
        py == PathTo(n, y)
    IN \/ /\ Len(px) < Len(py)
          /\ SubSeq(py, 1, Len(px)) = px
       \/ \E i \in 1..Len(px) :
            /\ i <= Len(py)
            /\ SubSeq(px, 1, i - 1) = SubSeq(py, 1, i - 1)
            /\ px[i] # py[i]
            /\ LET o == Owner(px[i]) IN Pos(Nodes[o], px[i]) < Pos(Nodes[o], py[i])

\* r is the first of the matches M below n in pre-order, nil when none.
FirstMatch(n, M, r) ==
    IF M = {} THEN r = Nil
    ELSE /\ r \in M
         /\ \A y \in M \ {r} : PreOrderBefore(n, r, y)

C3_FindFirstPreOrder ==
    /\ call.op = "FindByValue" =>
          FirstMatch(call.n, {x \in Desc(call.n) : Value[x] = call.a}, ret.node)
    /\ call.op = "FindByMeta" =>
          FirstMatch(call.n, {x \in Desc(call.n) : Meta[x] = call.meta}, ret.node)

(***************************************************************************)
(* C4.  A render leaves the tree unchanged (every node's parent reference, *)
(* meta, value and children), and rendering the same node twice with no    *)
(* modification in between produces identical output.                      *)
(***************************************************************************)
C4_RenderIdempotent ==
    [][call'.op = "Writer" =>
          /\ <<Root, Meta, Value, Nodes>>' = <<Root, Meta, Value, Nodes>>
          /\ (call.op = "Writer" /\ call.n = call'.n) => ret' = ret
      ]_vars

\* A sub-node that still has a parent, and children, has been rendered.
C4_Witness ==
    /\ call.op = "Writer"
    /\ Root[call.n] # Nil
    /\ Len(Nodes[call.n]) > 0
    /\ ~ret.panic
    /\ Len(ret.w) >= 2

(***************************************************************************)
(* C5.  Branch() is idempotent, changes nothing but the node's own parent  *)
(* reference, and leaves the output of rendering the enclosing tree from   *)
(* its original root the same as before the call.                          *)
(***************************************************************************)
C5_BranchOnlyDetaches ==
    [][call'.op = "Branch" =>
          /\ Root' = [Root EXCEPT ![call'.n] = Nil]
          /\ <<Meta, Value, Nodes>>' = <<Meta, Value, Nodes>>
          /\ (call.op = "Branch" /\ call.n = call'.n) => Root' = Root
          /\ Output(WriterOf(1).w)' = Output(WriterOf(1).w)
          /\ WriterOf(1).panic' = WriterOf(1).panic
      ]_vars

(***************************************************************************)
(* C6.  When a parentless root is rendered, the line of a node at depth d  *)
(* has exactly d prefix segments before its connector, segment i < d being *)
(* a vertical link plus indent-width spaces if the node's ancestor at      *)
(* depth i is not the last of its siblings and indent-width + 1 blanks if  *)
(* it is; equivalently the ended-levels set seen when the line is emitted  *)
(* holds depth i < d exactly when that ancestor is a last sibling.         *)
(***************************************************************************)
C6_PrefixFollowsAncestors ==
    RenderedRoot =>
        \A k \in 2..Len(ret.w) :
            LET ln == ret.w[k]
                path == PathTo(call.n, ln.node)
                d == Len(path) - 1
            IN /\ Len(ln.text) >= d * SegWidth + 2
               /\ SubSeq(ln.text, d * SegWidth + 1, d * SegWidth + 2)
                    \in {EdgeTypeMid, EdgeTypeEnd}
               /\ \A i \in 0..(d - 1) :
                    /\ Seg(ln.text, i) = SegFor(path[i + 1])
                    /\ isEnded(ln.ended, i) <=> IsLastChild(path[i + 1])

\* A level-1 sibling list ended in one branch, and a later line of another
\* branch, two levels down, hangs under a level-1 node that is not last.
C6_Witness ==
    /\ RenderedRoot
    /\ \E j, k \in 2..Len(ret.w) :
          LET pj == PathTo(call.n, ret.w[j].node)
              pk == PathTo(call.n, ret.w[k].node)
          IN /\ j < k
             /\ Len(pj) = 2
             /\ IsLastChild(pj[2])
             /\ Len(pk) = 3
             /\ pk[1] # pj[1]
             /\ ~IsLastChild(pk[2])

(***************************************************************************)
(* C7.  For a node at depth d whose value holds line breaks, rendered from *)
(* the parentless root of a tree built by the add operations, the first    *)
(* line of the value gets no padding and every continuation line is        *)
(* prefixed by exactly d + 1 segments, root-most first, segment i blank    *)
(* if the node at depth i on the path is a last sibling and a vertical     *)
(* link plus indent-width spaces otherwise; segments 0..d-1 equal the      *)
(* prefix segments of the node's first line.                               *)
(***************************************************************************)
C7_ContinuationPadding ==
    RenderedRoot =>
        /\ ~ret.panic
        /\ \A k \in 2..Len(ret.w) :
            LET ln == ret.w[k]
                path == PathTo(call.n, ln.node)
                d == Len(path) - 1
                vl == ValueLines(ln.node)
                tl == TextLines(ln.text)
            IN Len(vl) >= 2 =>
                /\ Len(tl) = Len(vl)
                /\ SubSeq(tl[1], d * SegWidth + 1, Len(tl[1]))
                     \in {EdgeTypeMid \o <<" ">> \o vl[1], EdgeTypeEnd \o <<" ">> \o vl[1]}
                /\ \A j \in 2..Len(tl) :
                     /\ Len(tl[j]) = (d + 1) * SegWidth + Len(vl[j])
                     /\ SubSeq(tl[j], (d + 1) * SegWidth + 1, Len(tl[j])) = vl[j]
                     /\ \A i \in 0..d : Seg(tl[j], i) = SegFor(path[i + 1])
                     /\ \A i \in 0..(d - 1) : Seg(tl[j], i) = Seg(tl[1], i)

\* A multi-line value two levels down, under one last and one non-last
\* node of its path.
C7_Witness ==
    /\ RenderedRoot
    /\ \E k \in 2..Len(ret.w) :
          LET path == PathTo(call.n, ret.w[k].node) IN
          /\ Len(ValueLines(ret.w[k].node)) >= 2
          /\ Len(path) = 3
          /\ \E i, j \in 1..3 : IsLastChild(path[i]) /\ ~IsLastChild(path[j])

(***************************************************************************)
(* C8.  With the default indent width and connector glyphs, a value with   *)
(* an embedded line break renders its second line aligned under the first  *)
(* line's text column: for a node without metadata the number of           *)
(* characters before the value text on its first line equals the number    *)
(* of characters of padding before each continuation line.                 *)
(***************************************************************************)
C8_ContinuationAligned ==
    RenderedRoot /\ ~ret.panic =>
        \A k \in 2..Len(ret.w) :
            LET ln == ret.w[k]
                vl == ValueLines(ln.node)
                tl == TextLines(ln.text)
            IN (Meta[ln.node].isNil /\ Len(vl) >= 2) =>
                \A j \in 2..Len(tl) :
                    Len(tl[1]) - Len(vl[1]) = Len(tl[j]) - Len(vl[j])

Occurrences(q, x) == Cardinality({i \in 1..Len(q) : q[i] = x})

WellFormed ==
    \A x \in Allocated :
        /\ x \notin Desc(x)
        /\ Root[x] # Nil =>
             \A p \in Allocated :
                 Occurrences(Nodes[p], x) = IF p = Root[x] THEN 1 ELSE 0

AddAppendsOne ==
    \A n \in Allocated :
        (call'.op \in AddOps /\ call'.n = n) =>
            LET new == Len(Nodes) + 1 IN
            /\ DOMAIN Nodes' = 1..new
            /\ Nodes'[n] = Append(Nodes[n], new)
            /\ FindLastNodeOf(n)' = new
            /\ Nodes'[new] = <<>>
            /\ Root'[new] = n
            /\ \A m \in Allocated \ {n} : Nodes'[m] = Nodes[m]
            /\ ret'.node = IF call'.op \in {"AddNode", "AddMetaNode"} THEN n ELSE new

C10_WellFormedTree == []WellFormed /\ [][AddAppendsOne]_vars

\* An add onto a receiver that already had a child, in a tree where a
\* sub-node has been detached by Branch.
C10_Witness ==
    /\ call.op \in AddOps
    /\ Len(Nodes[call.n]) >= 2
    /\ \E x \in Allocated : Owner(x) # Nil /\ Root[x] = Nil

====
